---- MODULE Spec2Model ----
(***************************************************************************)
(* A model of reboundx/extras.py: the ctypes binding of REBOUNDx.          *)
(*                                                                         *)
(* Every method of the binding is one action.  What a call does that the   *)
(* outside can observe (its calls into the native library, its calls of    *)
(* sim.process_messages, the warnings it emits, the attributes it sets) is *)
(* kept, in order, in call.events, with the exception it raised in         *)
(* call.exc and its return value in call.ret.                              *)
(*                                                                         *)
(* Python strings that the code converts (str.lower, str.encode) are       *)
(* sequences of characters; strings that are only compared (dictionary     *)
(* keys looked up as given) are TLA+ strings.                              *)
(***************************************************************************)
EXTENDS Integers, Sequences, FiniteSets, TLC

\* ------------------------------------------------------------------ bounds

\* Extras objects alive at once (Extras(sim) and Extras.from_file together).
MaxExtras == 2
\* The loader's warning code w ranges over 0 .. 2^WBits - 1.
WBits == 7
\* Integers assigned to Extras.integrator range over -MaxInt .. MaxInt.
MaxInt == 4

\* ----------------------------------------------------------------- strings

LowerLetters ==
    << "a", "b", "c", "d", "e", "f", "g", "h", "i", "j", "k", "l", "m",
       "n", "o", "p", "q", "r", "s", "t", "u", "v", "w", "x", "y", "z" >>

UpperLetters ==
    << "A", "B", "C", "D", "E", "F", "G", "H", "I", "J", "K", "L", "M",
       "N", "O", "P", "Q", "R", "S", "T", "U", "V", "W", "X", "Y", "Z" >>

Digits == << "0", "1", "2", "3", "4", "5", "6", "7", "8", "9" >>

IndexOf(seq, c) == CHOOSE i \in 1..Len(seq) : seq[i] = c

IsIn(seq, c) == \E i \in 1..Len(seq) : seq[i] = c

\* str.lower() on one character.
lower_char(c) ==
    IF IsIn(UpperLetters, c) THEN LowerLetters[IndexOf(UpperLetters, c)] ELSE c

\* str.lower()
lower(s) == [i \in 1..Len(s) |-> lower_char(s[i])]

\* str.upper(), used to build the letter-case variants of the inputs.
upper_char(c) ==
    IF IsIn(LowerLetters, c) THEN UpperLetters[IndexOf(LowerLetters, c)] ELSE c

upper(s) == [i \in 1..Len(s) |-> upper_char(s[i])]

\* str.capitalize()
capitalize(s) ==
    [i \in 1..Len(s) |-> IF i = 1 THEN upper_char(s[i]) ELSE lower_char(s[i])]

\* aLtErNaTiNg case.
alternate(s) ==
    [i \in 1..Len(s) |-> IF i % 2 = 0 THEN upper_char(s[i]) ELSE lower_char(s[i])]

\* ord(c); a character that is none of the ASCII ones has a code point of
\* 128 or more.
ord(c) ==
    IF IsIn(LowerLetters, c) THEN 96 + IndexOf(LowerLetters, c)
    ELSE IF IsIn(UpperLetters, c) THEN 64 + IndexOf(UpperLetters, c)
    ELSE IF IsIn(Digits, c) THEN 47 + IndexOf(Digits, c)
    ELSE IF c = "_" THEN 95
    ELSE IF c = "." THEN 46
    ELSE 233

\* str.encode("ascii"): the bytes, or UnicodeEncodeError.
encode_ascii(s) ==
    IF \A i \in 1..Len(s) : ord(s[i]) < 128
    THEN [ok |-> TRUE, bytes |-> [i \in 1..Len(s) |-> ord(s[i])]]
    ELSE [ok |-> FALSE, bytes |-> << >>]

\* ------------------------------------------------------------ dictionaries

\* A dict is the sequence of its (key, value) items, in insertion order.
dict_has(d, k) == \E i \in 1..Len(d) : d[i][1] = k

dict_get(d, k) == d[CHOOSE i \in 1..Len(d) : d[i][1] = k][2]

dict_keys(d) == {d[i][1] : i \in 1..Len(d)}

S_implicit_midpoint ==
    << "i", "m", "p", "l", "i", "c", "i", "t", "_",
       "m", "i", "d", "p", "o", "i", "n", "t" >>
S_rk4 == << "r", "k", "4" >>
S_euler == << "e", "u", "l", "e", "r" >>
S_rk2 == << "r", "k", "2" >>
S_none == << "n", "o", "n", "e" >>
S_pos == << "p", "o", "s" >>
S_vel == << "v", "e", "l" >>
S_updater == << "u", "p", "d", "a", "t", "e", "r" >>
S_recorder == << "r", "e", "c", "o", "r", "d", "e", "r" >>

INTEGRATORS ==
    << <<S_implicit_midpoint, 0>>, <<S_rk4, 1>>, <<S_euler, 2>>,
       <<S_rk2, 3>>, <<S_none, -1>> >>

REBX_TIMING == << <<"pre", -1>>, <<"post", 1>> >>

REBX_FORCE_TYPE == << <<S_none, 0>>, <<S_pos, 1>>, <<S_vel, 2>> >>

REBX_OPERATOR_TYPE == << <<S_none, 0>>, <<S_updater, 1>>, <<S_recorder, 2>> >>

REBX_BINARY_WARNINGS ==
    << <<"REBOUNDx Error: Cannot read binary file. Check filename and file contents.", 1>>,
       <<"REBOUNDx Error: Binary file was corrupt. Could not read.", 2>>,
       <<"REBOUNDx Warning: Binary file was saved with a different version of REBOUNDx. Binary format might have changed.", 4>>,
       <<"REBOUNDx Warning: At least one parameter in the binary file was not loaded. Check simulation.", 8>>,
       <<"REBOUNDx Warning: At least one particle's parameters in the binary file were not loaded. Check simulation.", 16>>,
       <<"REBOUNDx Warning: At least one effect and its parameters were not loaded from the binary file. Check simulation.", 32>>,
       <<"REBOUNDx Warning: At least one field in the binary field was not recognized, and not loaded. Probably binary was created with more recent REBOUNDx version than you are using.", 64>> >>

REBX_C_TO_CTYPES ==
    << <<"REBX_TYPE_NONE", "None">>, <<"REBX_TYPE_DOUBLE", "c_double">>,
       <<"REBX_TYPE_INT", "c_int">>, <<"REBX_TYPE_POINTER", "c_void_p">>,
       <<"REBX_TYPE_FORCE", "Force">> >>

\* for i, pair in enumerate(REBX_C_TO_CTYPES): REBX_C_PARAM_TYPES[pair[0]] = i
REBX_C_PARAM_TYPES ==
    [i \in 1..Len(REBX_C_TO_CTYPES) |-> <<REBX_C_TO_CTYPES[i][1], i - 1>>]

\* ---------------------------------------------------------------- integers

\* ctypes.c_int(v) keeps the low 32 bits of v; every integer of the model lies
\* within -2^31 .. 2^31 - 1, where that is v itself.
c_int(v) == v

\* a & b for non-negative integers.
RECURSIVE BitAnd(_, _)
BitAnd(a, b) ==
    IF a = 0 \/ b = 0 THEN 0
    ELSE (a % 2) * (b % 2) + 2 * BitAnd(a \div 2, b \div 2)

RECURSIVE Pow2(_)
Pow2(n) == IF n = 0 THEN 1 ELSE 2 * Pow2(n - 1)

\* ------------------------------------------------------------------ events

Native(fn, arg) == [kind |-> "native", fn |-> fn, arg |-> arg]

ProcessMessages == [kind |-> "pm", fn |-> "process_messages", arg |-> 0]

Warn(message, arg) == [kind |-> "warn", fn |-> message, arg |-> arg]

SetAttr(attr, arg) == [kind |-> "set", fn |-> attr, arg |-> arg]

\* ------------------------------------------------------------ return values

RetNone == [kind |-> "None", int |-> 0, name |-> << >>]

RetInt(i) == [kind |-> "int", int |-> i, name |-> << >>]

RetName(s) == [kind |-> "str", int |-> 0, name |-> s]

RetObject(class) == [kind |-> class, int |-> 0, name |-> << >>]

\* The call raised: there is no return value.
NoReturn == [kind |-> "raised", int |-> 0, name |-> << >>]

\* ------------------------------------------------------------------- state

VARIABLES
    basestring_defined, \* whether the interpreter's builtins hold basestring
    sim,                \* the rebound.Simulation the binding is attached to
    instances,          \* the Extras objects, in the order they were created
    force,              \* a Force structure
    operator,           \* an Operator structure
    unprocessed,        \* native calls of the effect-management methods made
                        \* since process_messages last ran
    call                \* the last call of the binding and what it did

vars == << basestring_defined, sim, instances, force, operator, unprocessed, call >>

MkCall(op, self, str, key, num, flag, out) ==
    [op |-> op, self |-> self, str |-> str, key |-> key, num |-> num,
     flag |-> flag, events |-> out.events, exc |-> out.exc, ret |-> out.ret]

Outcome(events, exc, ret) == [events |-> events, exc |-> exc, ret |-> ret]

Init ==
    /\ basestring_defined \in BOOLEAN
    /\ sim = [has_extras_ref |-> FALSE, _extras_ref |-> 0, save_messages |-> 0]
    /\ instances = << >>
    /\ force = [_force_type |-> 0]
    /\ operator = [_operator_type |-> 0]
    /\ unprocessed = 0
    /\ call = MkCall("start", 0, << >>, "", 0, FALSE, Outcome(<< >>, "none", RetNone))

\* The integrator codes the native library knows.
IntegratorCodes == {INTEGRATORS[i][2] : i \in 1..Len(INTEGRATORS)}

\* ---------------------------------------------------------- Extras.__init__

\* A mutant: the constructor looks for messages every time.
init_always_processes(s) == TRUE

\* hasattr(sim, "_extras_ref") decides whether the constructor looks for
\* messages.
init_processes_messages(s) == ~s.has_extras_ref

init_outcome(s) ==
    Outcome(<<Native("rebx_initialize", 0)>>
              \o (IF init_processes_messages(s) THEN <<ProcessMessages>> ELSE << >>)
              \o <<SetAttr("sim._extras_ref", 0), SetAttr("self.custom_effects", 0)>>,
            "none", RetObject("Extras"))

\* Extras(sim)
Extras_init ==
    /\ Len(instances) < MaxExtras
    /\ LET self == Len(instances) + 1 IN
        /\ instances' = Append(instances,
              [_integrator |-> 0, has_custom_effects |-> TRUE,
               custom_effects |-> {}, by |-> "__init__"])
        /\ sim' = [sim EXCEPT !.has_extras_ref = TRUE, !._extras_ref = self]
        /\ call' = MkCall("__init__", self, << >>, "", 0, sim.has_extras_ref,
                          init_outcome(sim))
    /\ UNCHANGED << basestring_defined, force, operator, unprocessed >>

\* -------------------------------------------------------- Extras.from_file

\* A mutant: the code compared with 1 instead of its bit 1 tested.
major_error_equal(w) == w = 1

\* extrasp is a ctypes pointer object (restype POINTER(Extras)), never None.
major_error(w) == FALSE \/ BitAnd(w, 1) # 0

\* A mutant: the loop left at the first warning.
RECURSIVE binary_warnings_first(_, _)
binary_warnings_first(w, k) ==
    IF k > Len(REBX_BINARY_WARNINGS) THEN << >>
    ELSE IF BitAnd(w, REBX_BINARY_WARNINGS[k][2]) # 0 /\ REBX_BINARY_WARNINGS[k][2] # 1
    THEN <<Warn(REBX_BINARY_WARNINGS[k][1], REBX_BINARY_WARNINGS[k][2])>>
    ELSE binary_warnings_first(w, k + 1)

\* for message, value in REBX_BINARY_WARNINGS, from entry k on.
RECURSIVE binary_warnings(_, _)
binary_warnings(w, k) ==
    IF k > Len(REBX_BINARY_WARNINGS) THEN << >>
    ELSE LET message == REBX_BINARY_WARNINGS[k][1]
             value == REBX_BINARY_WARNINGS[k][2]
         IN (IF BitAnd(w, value) # 0 /\ value # 1
             THEN <<Warn(message, value)>> ELSE << >>)
            \o binary_warnings(w, k + 1)

from_file_outcome(w, filename) ==
    LET e1 == <<Native("rebx_init", 0)>>
        e2 == Append(e1, Native("rebx_create_extras_from_binary_with_messages", 0))
    IN IF ~encode_ascii(filename).ok
       THEN Outcome(e1, "UnicodeEncodeError", NoReturn)
       ELSE IF major_error(w)
       THEN Outcome(e2, "ValueError", NoReturn)
       ELSE Outcome(e2 \o binary_warnings(w, 1) \o <<SetAttr("sim.save_messages", 1)>>,
                    "none", RetObject("Extras"))

Filenames == { << "a", ".", "b", "i", "n" >> }

\* The warning codes the loader can write.
WarningCodes == 0..(Pow2(WBits) - 1)

\* The integrator code the loader writes into the structure: the files loaded
\* were saved with the default integrator.
LoadedIntegrators == {0}

\* Extras.from_file(sim, filename), the loader writing a code w of W.
from_file_with(W) ==
    /\ Len(instances) < MaxExtras
    /\ \E w \in W, filename \in Filenames, loaded \in LoadedIntegrators :
        LET out == from_file_outcome(w, filename)
            self == Len(instances) + 1
        IN /\ call' = MkCall("from_file", IF out.exc = "none" THEN self ELSE 0,
                             filename, "", w, FALSE, out)
           /\ IF out.exc = "none"
              THEN /\ instances' = Append(instances,
                         [_integrator |-> loaded, has_custom_effects |-> FALSE,
                          custom_effects |-> {}, by |-> "from_file"])
                   /\ sim' = [sim EXCEPT !.save_messages = 1]
              ELSE UNCHANGED << instances, sim >>
    /\ UNCHANGED << basestring_defined, force, operator, unprocessed >>

from_file == from_file_with(WarningCodes)

\* A clean load, a failed one and one with a warning.
SomeWarningCodes == {0, 1, 4}

from_file_some == from_file_with(SomeWarningCodes)

\* ------------------------------------------------------- Extras.integrator

\* The getter: the first name of INTEGRATORS whose code is i, or i itself.
RECURSIVE integrator_scan(_, _)
integrator_scan(i, k) ==
    IF k > Len(INTEGRATORS) THEN RetInt(i)
    ELSE IF i = INTEGRATORS[k][2] THEN RetName(INTEGRATORS[k][1])
    ELSE integrator_scan(i, k + 1)

integrator_getter(i) == integrator_scan(i, 1)

\* A value assigned to a property: an int, a str or a float.
IntValue(i) == [type |-> "int", int |-> i, str |-> << >>]

StrValue(s) == [type |-> "str", int |-> 0, str |-> s]

FloatValue == [type |-> "float", int |-> 0, str |-> << >>]

\* isinstance(value, basestring): the name basestring is looked up when the
\* line runs, and only an interpreter whose builtins hold it finds it.
\* The setter: the exception raised and the code stored in _integrator.
integrator_setter(cur, value) ==
    IF value.type = "int"
    THEN [exc |-> "none", val |-> c_int(value.int)]
    ELSE IF ~basestring_defined
    THEN [exc |-> "NameError", val |-> cur]
    ELSE IF value.type = "str"
    THEN IF dict_has(INTEGRATORS, lower(value.str))
         THEN [exc |-> "none", val |-> dict_get(INTEGRATORS, lower(value.str))]
         ELSE [exc |-> "ValueError", val |-> cur]
    ELSE [exc |-> "none", val |-> cur]

\* Each name in lower, upper, capitalized and alternating case.
CaseVariants(names) ==
    UNION { {n, upper(n), capitalize(n), alternate(n)} : n \in names }

S_rk5 == << "r", "k", "5" >>

IntegratorStrings ==
    CaseVariants(dict_keys(INTEGRATORS)) \cup {S_rk5, S_pos, << >>}

IntegratorValues ==
    {IntValue(i) : i \in (-MaxInt)..MaxInt}
        \cup {StrValue(s) : s \in IntegratorStrings}
        \cup {FloatValue}

\* extras.integrator = value
integrator_set ==
    /\ \E self \in 1..Len(instances), value \in IntegratorValues :
        LET out == integrator_setter(instances[self]._integrator, value) IN
        /\ instances' = [instances EXCEPT ![self]._integrator = out.val]
        /\ call' = MkCall("integrator.setter", self, value.str, value.type,
                          value.int, FALSE,
                          Outcome(<< >>, out.exc,
                                  IF out.exc = "none" THEN RetNone ELSE NoReturn))
    /\ UNCHANGED << basestring_defined, sim, force, operator, unprocessed >>

\* extras.integrator
integrator_get ==
    /\ \E self \in 1..Len(instances) :
        call' = MkCall("integrator", self, << >>, "", 0, FALSE,
                       Outcome(<< >>, "none",
                               integrator_getter(instances[self]._integrator)))
    /\ UNCHANGED << basestring_defined, sim, instances, force, operator, unprocessed >>

\* ------------------------------- Force.force_type, Operator.operator_type

force_type_getter(f) == RetInt(f._force_type)

operator_type_getter(o) == RetInt(o._operator_type)

\* A mutant: the name looked up as given, not in lower case.
force_type_setter_as_given(cur, value) ==
    IF value.type # "str"
    THEN [exc |-> "AttributeError", val |-> cur]
    ELSE IF dict_has(REBX_FORCE_TYPE, value.str)
    THEN [exc |-> "none", val |-> dict_get(REBX_FORCE_TYPE, value.str)]
    ELSE [exc |-> "KeyError", val |-> cur]

\* self._force_type = REBX_FORCE_TYPE[value.lower()]
force_type_setter(cur, value) ==
    IF value.type # "str"
    THEN [exc |-> "AttributeError", val |-> cur]
    ELSE IF dict_has(REBX_FORCE_TYPE, lower(value.str))
    THEN [exc |-> "none", val |-> dict_get(REBX_FORCE_TYPE, lower(value.str))]
    ELSE [exc |-> "KeyError", val |-> cur]

\* self._operator_type = REBX_OPERATOR_TYPE[value.lower()]
operator_type_setter(cur, value) ==
    IF value.type # "str"
    THEN [exc |-> "AttributeError", val |-> cur]
    ELSE IF dict_has(REBX_OPERATOR_TYPE, lower(value.str))
    THEN [exc |-> "none", val |-> dict_get(REBX_OPERATOR_TYPE, lower(value.str))]
    ELSE [exc |-> "KeyError", val |-> cur]

TypeStrings ==
    CaseVariants(dict_keys(REBX_FORCE_TYPE) \cup dict_keys(REBX_OPERATOR_TYPE))
        \cup {S_rk4, << >>}

TypeValues ==
    {StrValue(s) : s \in TypeStrings} \cup {IntValue(i) : i \in 0..MaxInt}

\* force.force_type = value
force_type_set ==
    /\ \E value \in TypeValues :
        LET out == force_type_setter(force._force_type, value) IN
        /\ force' = [force EXCEPT !._force_type = out.val]
        /\ call' = MkCall("force_type.setter", 0, value.str, value.type,
                          value.int, FALSE,
                          Outcome(<< >>, out.exc,
                                  IF out.exc = "none" THEN RetNone ELSE NoReturn))
    /\ UNCHANGED << basestring_defined, sim, instances, operator, unprocessed >>

\* force.force_type
force_type_get ==
    /\ call' = MkCall("force_type", 0, << >>, "", 0, FALSE,
                      Outcome(<< >>, "none", force_type_getter(force)))
    /\ UNCHANGED << basestring_defined, sim, instances, force, operator, unprocessed >>

\* operator.operator_type = value
operator_type_set ==
    /\ \E value \in TypeValues :
        LET out == operator_type_setter(operator._operator_type, value) IN
        /\ operator' = [operator EXCEPT !._operator_type = out.val]
        /\ call' = MkCall("operator_type.setter", 0, value.str, value.type,
                          value.int, FALSE,
                          Outcome(<< >>, out.exc,
                                  IF out.exc = "none" THEN RetNone ELSE NoReturn))
    /\ UNCHANGED << basestring_defined, sim, instances, force, unprocessed >>

\* operator.operator_type
operator_type_get ==
    /\ call' = MkCall("operator_type", 0, << >>, "", 0, FALSE,
                      Outcome(<< >>, "none", operator_type_getter(operator)))
    /\ UNCHANGED << basestring_defined, sim, instances, force, operator, unprocessed >>

\* ------------------------------------------- the effect-management methods

\* The native calls left unprocessed after `events`, n being left before:
\* process_messages takes every message the native calls have queued.
RECURSIVE pending_after(_, _)
pending_after(n, events) ==
    IF events = << >> THEN n
    ELSE pending_after(IF Head(events).kind = "native" THEN n + 1
                       ELSE IF Head(events).kind = "pm" THEN 0
                       ELSE n,
                       Tail(events))

\* Names of effects and parameters.
EffectNames == { << "g", "r" >>, << "k", "2" >> }

ParamTypes ==
    dict_keys(REBX_C_PARAM_TYPES) \cup {"REBX_TYPE_UINT32", "rebx_type_int"}

Timings == dict_keys(REBX_TIMING) \cup {"PRE", "both"}

register_param_outcome(name, param_type) ==
    IF ~dict_has(REBX_C_PARAM_TYPES, param_type)
    THEN Outcome(<< >>, "KeyError", NoReturn)
    ELSE IF ~encode_ascii(name).ok
    THEN Outcome(<< >>, "UnicodeEncodeError", NoReturn)
    ELSE Outcome(<<Native("rebx_register_param",
                          dict_get(REBX_C_PARAM_TYPES, param_type)),
                   ProcessMessages>>,
                 "none", RetNone)

\* load_force, create_force, load_operator and create_operator: the native
\* function fn returns a pointer to a structure of class `class`, null or not,
\* and ptr.contents of a null pointer raises ValueError.
load_outcome(fn, class, name, null) ==
    IF ~encode_ascii(name).ok
    THEN Outcome(<< >>, "UnicodeEncodeError", NoReturn)
    ELSE IF null
    THEN Outcome(<<Native(fn, 0), ProcessMessages>>, "ValueError", NoReturn)
    ELSE Outcome(<<Native(fn, 0), ProcessMessages>>, "none", RetObject(class))

\* A mutant: add_force without its process_messages call.
add_force_unprocessed ==
    Outcome(<<Native("rebx_add_force", 0)>>, "none", RetNone)

add_force_outcome ==
    Outcome(<<Native("rebx_add_force", 0), ProcessMessages>>, "none", RetNone)

\* A mutant: "if not dt_fraction", which takes 0 for None.
add_operator_plain_falsy(dt_is_none, dt_fraction) == dt_is_none \/ dt_fraction = 0

\* if dt_fraction is None
add_operator_plain(dt_is_none, dt_fraction) == dt_is_none

add_operator_outcome(dt_is_none, dt_fraction, timing, name) ==
    IF add_operator_plain(dt_is_none, dt_fraction)
    THEN Outcome(<<Native("rebx_add_operator", 0), ProcessMessages>>,
                 "none", RetNone)
    ELSE IF ~dict_has(REBX_TIMING, timing)
    THEN Outcome(<< >>, "KeyError", NoReturn)
    ELSE IF ~encode_ascii(name).ok
    THEN Outcome(<< >>, "UnicodeEncodeError", NoReturn)
    ELSE Outcome(<<Native("rebx_add_operator_step", dict_get(REBX_TIMING, timing)),
                   ProcessMessages>>,
                 "none", RetNone)

\* A call of an effect-management method of instance self with outcome out.
EffectCall(op, self, name, key, num, flag, out) ==
    /\ call' = MkCall(op, self, name, key, num, flag, out)
    /\ unprocessed' = pending_after(unprocessed, out.events)
    /\ UNCHANGED << basestring_defined, sim, instances, force, operator >>

register_param ==
    \E self \in 1..Len(instances), name \in EffectNames, param_type \in ParamTypes :
        EffectCall("register_param", self, name, param_type, 0, FALSE,
                   register_param_outcome(name, param_type))

load_force ==
    \E self \in 1..Len(instances), name \in EffectNames, null \in BOOLEAN :
        EffectCall("load_force", self, name, "", 0, null,
                   load_outcome("rebx_load_force", "Force", name, null))

create_force ==
    \E self \in 1..Len(instances), name \in EffectNames, null \in BOOLEAN :
        EffectCall("create_force", self, name, "", 0, null,
                   load_outcome("rebx_create_force", "Force", name, null))

load_operator ==
    \E self \in 1..Len(instances), name \in EffectNames, null \in BOOLEAN :
        EffectCall("load_operator", self, name, "", 0, null,
                   load_outcome("rebx_load_operator", "Operator", name, null))

create_operator ==
    \E self \in 1..Len(instances), name \in EffectNames, null \in BOOLEAN :
        EffectCall("create_operator", self, name, "", 0, null,
                   load_outcome("rebx_create_operator", "Operator", name, null))

add_force ==
    \E self \in 1..Len(instances) :
        EffectCall("add_force", self, << >>, "", 0, FALSE, add_force_outcome)

\* dt_fraction is None (flag) or a number (num); name defaults to "".
add_operator ==
    \E self \in 1..Len(instances), dt_is_none \in BOOLEAN, dt_fraction \in 0..1,
       timing \in Timings, name \in EffectNames \cup {<< >>} :
        /\ dt_is_none => dt_fraction = 0
        /\ EffectCall("add_operator", self, name, timing, dt_fraction, dt_is_none,
                      add_operator_outcome(dt_is_none, dt_fraction, timing, name))

\* ------------------------------------------------ Extras.get_effect, save

\* POINTER(Effect) is evaluated first, and the module neither defines nor
\* imports a name Effect: the lookup of the name raises NameError before the
\* native function is reached, whatever it would have returned.
get_effect_outcome(name, null) == Outcome(<< >>, "NameError", NoReturn)

get_effect ==
    /\ \E self \in 1..Len(instances), name \in EffectNames, null \in BOOLEAN :
        call' = MkCall("get_effect", self, name, "", 0, null,
                       get_effect_outcome(name, null))
    /\ UNCHANGED << basestring_defined, sim, instances, force, operator, unprocessed >>

save_outcome(filename) ==
    IF ~encode_ascii(filename).ok
    THEN Outcome(<< >>, "UnicodeEncodeError", NoReturn)
    ELSE Outcome(<<Native("rebx_output_binary", 0)>>, "none", RetNone)

save ==
    /\ \E self \in 1..Len(instances), filename \in Filenames :
        call' = MkCall("save", self, filename, "", 0, FALSE, save_outcome(filename))
    /\ UNCHANGED << basestring_defined, sim, instances, force, operator, unprocessed >>

\* ------------------------------------------------------- specifications

Next ==
    \/ Extras_init
    \/ from_file
    \/ integrator_set
    \/ integrator_get
    \/ force_type_set
    \/ force_type_get
    \/ operator_type_set
    \/ operator_type_get
    \/ register_param
    \/ load_force
    \/ create_force
    \/ load_operator
    \/ create_operator
    \/ add_force
    \/ add_operator
    \/ get_effect
    \/ save

Spec == Init /\ [][Next]_vars

\* Loading from binary files.
SpecLoad == Init /\ [][from_file]_vars

\* Attaching to a simulation, by the constructor and by from_file, and the
\* calls that do not manage effects.
SpecAttach ==
    Init /\ [][Extras_init \/ from_file_some \/ get_effect \/ save]_vars

\* The integrator property.
SpecIntegrator == Init /\ [][Extras_init \/ integrator_set \/ integrator_get]_vars

\* The type properties of Force and Operator.
SpecTypes ==
    Init /\ [][force_type_set \/ force_type_get
                 \/ operator_type_set \/ operator_type_get]_vars

\* The effect-management methods.
SpecEffects ==
    Init /\ [][Extras_init \/ register_param \/ load_force \/ create_force
                 \/ load_operator \/ create_operator \/ add_force
                 \/ add_operator]_vars

\* ------------------------------------------------------------ the claims

\* The events of kind `kind` among `events`, in order.
EventsOfKind(events, kind) ==
    LET Test(e) == e.kind = kind IN SelectSeq(events, Test)

\* The native loader ran in call c, and so returned a warning code.
LoaderReturned(c) ==
    \E i \in 1..Len(c.events) :
        c.events[i] = Native("rebx_create_extras_from_binary_with_messages", 0)

\* Bit v (a power of two) of w is set.
BitSet(w, v) == (w \div v) % 2 = 1

\* C1: whenever the loader returns a warning code with bit 1 set, whatever
\* the other bits, from_file raises ValueError, emits no warning, sets no
\* attribute (sim and its save_messages stay as they were) and returns no
\* Extras object (no instance is added).
C1_MajorErrorRaises ==
    [][(call'.op = "from_file" /\ LoaderReturned(call') /\ BitSet(call'.num, 1))
          => /\ call'.exc = "ValueError"
             /\ EventsOfKind(call'.events, "warn") = << >>
             /\ EventsOfKind(call'.events, "set") = << >>
             /\ call'.ret = NoReturn
             /\ sim' = sim
             /\ instances' = instances]_vars

\* A load that failed with the bits 1, 2 and 64 set, after a load that
\* succeeded.
C1_Witness ==
    /\ call.op = "from_file"
    /\ call.num = 67
    /\ call.exc = "ValueError"
    /\ Len(instances) = 1

\* The warnings the claim C2 expects for code w: one for each entry of the
\* table whose value is one of 2 .. 64 and has its bit set in w, in table order.
ExpectedWarnings(w) ==
    LET Test(e) == e[2] \in {2, 4, 8, 16, 32, 64} /\ BitSet(w, e[2])
        chosen == SelectSeq(REBX_BINARY_WARNINGS, Test)
    IN [i \in 1..Len(chosen) |-> Warn(chosen[i][1], chosen[i][2])]

\* C2: whenever the loader returns a warning code with bit 1 clear, from_file
\* emits exactly the warnings of the table entries 2 .. 64 whose bit is set,
\* once each and in table order, then sets sim.save_messages to 1 and returns
\* the loaded Extras, raising nothing.
C2_WarningsSurfaced ==
    (call.op = "from_file" /\ LoaderReturned(call) /\ ~BitSet(call.num, 1))
        => /\ EventsOfKind(call.events, "warn") = ExpectedWarnings(call.num)
           /\ call.exc = "none"
           /\ call.ret = RetObject("Extras")
           /\ call.events[Len(call.events)] = SetAttr("sim.save_messages", 1)
           /\ Len(EventsOfKind(call.events, "set")) = 1
           /\ sim.save_messages = 1
           /\ call.self = Len(instances)
           /\ instances[call.self].by = "from_file"
           /\ (call.num = 0 => EventsOfKind(call.events, "warn") = << >>)

\* A load with code 2 + 32: the 'corrupt' warning, then the 'effect' warning.
C2_Witness ==
    /\ call.op = "from_file"
    /\ call.num = 34
    /\ call.exc = "none"
    /\ Len(EventsOfKind(call.events, "warn")) = 2
    /\ EventsOfKind(call.events, "warn")[1].arg = 2

\* The integrator the instance of the last call reads back.
ReadBack == integrator_getter(instances[call.self]._integrator)

\* C3: assigning a name of INTEGRATORS, in any letter case, stores its code
\* and the property then reads as the name in lower case; assigning the code
\* itself gives the same read result.
C3_IntegratorSetAndReadBack ==
    call.op = "integrator.setter"
        => \A k \in 1..Len(INTEGRATORS) :
            /\ (call.key = "str" /\ call.str \in CaseVariants({INTEGRATORS[k][1]}))
                  => /\ call.exc = "none"
                     /\ instances[call.self]._integrator = INTEGRATORS[k][2]
                     /\ ReadBack = RetName(INTEGRATORS[k][1])
            /\ (call.key = "int" /\ call.num = INTEGRATORS[k][2])
                  => /\ call.exc = "none"
                     /\ ReadBack = RetName(INTEGRATORS[k][1])

\* What holds of the code: the part of C3 about integer codes, and the part
\* about names where the interpreter defines basestring.
IntegratorSetWhereBasestringDefined ==
    (call.op = "integrator.setter" /\ (call.key = "int" \/ basestring_defined))
        => \A k \in 1..Len(INTEGRATORS) :
            /\ (call.key = "str" /\ call.str \in CaseVariants({INTEGRATORS[k][1]}))
                  => /\ call.exc = "none"
                     /\ ReadBack = RetName(INTEGRATORS[k][1])
            /\ (call.key = "int" /\ call.num = INTEGRATORS[k][2])
                  => /\ call.exc = "none"
                     /\ ReadBack = RetName(INTEGRATORS[k][1])

\* C4: assigning a string that is not, in lower case, a key of INTEGRATORS
\* raises ValueError and leaves the stored code, and so the value read, as
\* they were.
C4_UnknownIntegratorRejected ==
    [][(call'.op = "integrator.setter" /\ call'.key = "str"
            /\ lower(call'.str) \notin dict_keys(INTEGRATORS))
          => /\ call'.exc = "ValueError"
             /\ instances'[call'.self]._integrator = instances[call'.self]._integrator
             /\ integrator_getter(instances'[call'.self]._integrator)
                  = integrator_getter(instances[call'.self]._integrator)]_vars

\* What holds of the code: an unknown name raises (ValueError, or NameError
\* where basestring is not defined) and the stored code stays.
UnknownIntegratorLeavesCode ==
    [][(call'.op = "integrator.setter" /\ call'.key = "str"
            /\ lower(call'.str) \notin dict_keys(INTEGRATORS))
          => /\ call'.exc = (IF basestring_defined THEN "ValueError" ELSE "NameError")
             /\ instances'[call'.self]._integrator = instances[call'.self]._integrator]_vars

\* The codes the claim C5 gives the names of the two type tables.
ForceTypeCode(s) == IF s = S_none THEN 0 ELSE IF s = S_pos THEN 1 ELSE 2

OperatorTypeCode(s) == IF s = S_none THEN 0 ELSE IF s = S_updater THEN 1 ELSE 2

\* C5: assigning a name of REBX_FORCE_TYPE to Force.force_type (of
\* REBX_OPERATOR_TYPE to Operator.operator_type), in any letter case, stores
\* the code of the name, and the property then reads as that integer; any
\* other value raises and leaves the stored code as it was.
C5_TypeAccessorsEncode ==
    [][/\ call'.op = "force_type.setter"
            => IF call'.key = "str"
                  /\ call'.str \in CaseVariants({S_none, S_pos, S_vel})
               THEN /\ call'.exc = "none"
                    /\ force'._force_type = ForceTypeCode(lower(call'.str))
                    /\ force_type_getter(force') = RetInt(ForceTypeCode(lower(call'.str)))
               ELSE /\ call'.exc # "none"
                    /\ force' = force
       /\ call'.op = "operator_type.setter"
            => IF call'.key = "str"
                  /\ call'.str \in CaseVariants({S_none, S_updater, S_recorder})
               THEN /\ call'.exc = "none"
                    /\ operator'._operator_type = OperatorTypeCode(lower(call'.str))
                    /\ operator_type_getter(operator')
                         = RetInt(OperatorTypeCode(lower(call'.str)))
               ELSE /\ call'.exc # "none"
                    /\ operator' = operator]_vars

\* 'VEL' was assigned to force_type, which reads 2, after 'Recorder' was
\* assigned to operator_type.
C5_Witness ==
    /\ call.op = "force_type.setter"
    /\ call.str = upper(S_vel)
    /\ force_type_getter(force) = RetInt(2)
    /\ operator_type_getter(operator) = RetInt(2)

EffectMethods ==
    {"register_param", "load_force", "create_force", "load_operator",
     "create_operator", "add_force", "add_operator"}

\* One native call, then process_messages once, and nothing else.
OneNativeThenProcess(events) ==
    /\ Len(events) = 2
    /\ events[1].kind = "native"
    /\ events[2] = ProcessMessages

\* C6 as stated: every call of an effect-management method makes exactly one
\* native call and then calls process_messages exactly once, so no native call
\* is left unprocessed.
C6_OneNativeCallThenProcess ==
    /\ call.op \in EffectMethods => OneNativeThenProcess(call.events)
    /\ unprocessed = 0

\* The calls whose arguments the method rejects before it reaches the native
\* library: an unknown param_type, and an unknown timing with dt_fraction given.
ArgumentsRejected(c) ==
    \/ /\ c.op = "register_param"
       /\ c.key \notin {"REBX_TYPE_NONE", "REBX_TYPE_DOUBLE", "REBX_TYPE_INT",
                        "REBX_TYPE_POINTER", "REBX_TYPE_FORCE"}
    \/ /\ c.op = "add_operator"
       /\ ~c.flag
       /\ c.key \notin {"pre", "post"}

\* C6, amended: a call whose arguments are rejected raises with no native call
\* and no process_messages call; every other call makes exactly one native
\* call and then calls process_messages exactly once; either way no native
\* call is left unprocessed.
C6_OneNativeCallUnlessRejected ==
    /\ call.op \in EffectMethods
        => IF ArgumentsRejected(call)
           THEN call.events = << >> /\ call.exc # "none"
           ELSE OneNativeThenProcess(call.events)
    /\ unprocessed = 0

\* register_param with a type that is not in the table.
C6_Witness ==
    /\ call.op = "register_param"
    /\ call.key = "REBX_TYPE_UINT32"
    /\ call.events = << >>
    /\ call.exc = "KeyError"

\* C7: the constructor calls process_messages exactly when it is the first
\* construction on the simulation (sim had no _extras_ref), and after a
\* construction sim._extras_ref is the instance just created, whose
\* custom_effects is an empty dictionary.
C7_AttachProcessesMessagesOnce ==
    call.op = "__init__"
        => LET constructed == {i \in 1..Len(instances) : instances[i].by = "__init__"}
           IN /\ Len(EventsOfKind(call.events, "pm"))
                   = (IF Cardinality(constructed) = 1 THEN 1 ELSE 0)
              /\ (Cardinality(constructed) = 1) <=> ~call.flag
              /\ sim.has_extras_ref
              /\ sim._extras_ref = Len(instances)
              /\ call.self = Len(instances)
              /\ instances[call.self].by = "__init__"
              /\ instances[call.self].has_custom_effects
              /\ instances[call.self].custom_effects = {}

\* A second construction, which did not process messages.
C7_Witness ==
    /\ call.op = "__init__"
    /\ Len(instances) = 2
    /\ instances[1].by = "__init__"
    /\ EventsOfKind(call.events, "pm") = << >>
    /\ sim._extras_ref = 2

\* C8: with dt_fraction None, add_operator calls rebx_add_operator whatever
\* timing and name are; with dt_fraction given it calls rebx_add_operator_step
\* with -1 for 'pre' and 1 for 'post', and any other timing raises with no
\* native call and no process_messages call.
C8_AddOperatorDispatch ==
    call.op = "add_operator"
        => IF call.flag
           THEN /\ call.events = <<Native("rebx_add_operator", 0), ProcessMessages>>
                /\ call.exc = "none"
           ELSE IF call.key = "pre"
           THEN /\ call.events = <<Native("rebx_add_operator_step", -1), ProcessMessages>>
                /\ call.exc = "none"
           ELSE IF call.key = "post"
           THEN /\ call.events = <<Native("rebx_add_operator_step", 1), ProcessMessages>>
                /\ call.exc = "none"
           ELSE /\ call.events = << >>
                /\ call.exc # "none"

\* dt_fraction None with a timing that is not in the table: no error.
C8_Witness ==
    /\ call.op = "add_operator"
    /\ call.flag
    /\ call.key = "both"
    /\ call.exc = "none"
    /\ call.events[1].fn = "rebx_add_operator"

\* C9: get_effect returns the effect structure when the native lookup returns
\* a pointer that is not null; when it returns null it emits one RuntimeWarning
\* and returns None; it raises in neither case and never calls
\* process_messages.
C9_GetEffectWarnsOnNull ==
    call.op = "get_effect"
        => /\ call.exc = "none"
           /\ IF call.flag
              THEN /\ Len(EventsOfKind(call.events, "warn")) = 1
                   /\ call.ret = RetNone
              ELSE /\ EventsOfKind(call.events, "warn") = << >>
                   /\ call.ret = RetObject("Effect")
           /\ EventsOfKind(call.events, "pm") = << >>

\* What holds of the code: get_effect raises NameError and calls nothing.
GetEffectRaisesNameError ==
    call.op = "get_effect" => call.exc = "NameError" /\ call.events = << >>

====
